---------------------------- MODULE Spec2Model ----------------------------
(***************************************************************************)
(* Model of the AgroGuard crop-health core: the local inference engine     *)
(* (runLocalInference), the analysis orchestrator (analyzeCropHealth), the *)
(* record store (dbService), the sync coordinator (syncOfflineRecords) and *)
(* the application handlers that drive them (App, Analyzer, History).      *)
(*                                                                         *)
(* Numbers: feature values are kept in hundredths (0.8 is 80), weights and *)
(* multipliers in tenths (1.4 is 14); every comparison and rounding of the *)
(* code is done exactly on these integers.                                 *)
(***************************************************************************)
EXTENDS Integers, Sequences, FiniteSets, TLC

(***************************************************************************)
(* Bounds of the model                                                     *)
(***************************************************************************)
\* Records ever created by the Analyzer.
MaxRecords == 2
\* Cooldown timers (setTimeout of the 'completed' handler) pending at once: a
\* pass reports 'completed' only while fewer are pending.
MaxTimers == 1
\* Invocations of syncOfflineRecords that can be in flight at once.
MaxConcurrent == 2
\* Times the user saves new settings.
MaxSettingsSaves == 1
\* Largest expectedLoss the status rule is tried with (SpecStatus).
MaxLoss == 60
\* The count of a record's sync calls stops at this number.
MaxCalls == 4

(***************************************************************************)
(* Program constants                                                       *)
(***************************************************************************)
MAX_SYNC_ATTEMPTS == 3
AcceptanceThreshold == 45
DiseasedLoss == 15
StressedLoss == 5
AnalyzerCriticalLoss == 30

HEALTHY == "Healthy"
STRESSED == "Stressed"
DISEASED == "Diseased"
CRITICAL == "Critical"
CropStatus == {HEALTHY, STRESSED, DISEASED, CRITICAL}

StressSensitivity == {"Low", "Standard", "High", "Aggressive"}

DEFAULT_SETTINGS ==
  [stressSensitivity |-> "Standard", stressThreshold |-> 20,
   insuranceThreshold |-> 25, autoSync |-> TRUE]

FeatureNames ==
  {"greenness", "variance", "necroticDensity", "redness", "edgeDensity", "zonalIntegrity"}

DISEASE_PROFILES == <<
  [name |-> "Leaf Rust (Puccinia spp.)",
   weights |-> [redness |-> 8, edgeDensity |-> 6, variance |-> 4],
   recommendations |-> <<"Apply triazole fungicide", "Reduce overhead irrigation", "Monitor spread to adjacent rows">>,
   baseLossModifier |-> 12],
  [name |-> "Late Blight (Phytophthora infestans)",
   weights |-> [necroticDensity |-> 9, greenness |-> -8, variance |-> 7],
   recommendations |-> <<"Immediate copper-based spray", "Remove heavily infected plant matter", "Check for stem cankers">>,
   baseLossModifier |-> 20],
  [name |-> "Powdery Mildew",
   weights |-> [variance |-> 8, edgeDensity |-> 5, greenness |-> -2],
   recommendations |-> <<"Increase airflow in canopy", "Apply sulfur-based powders", "Check relative humidity levels">>,
   baseLossModifier |-> 8],
  [name |-> "Nitrogen/Iron Chlorosis",
   weights |-> [greenness |-> -9, zonalIntegrity |-> -7, necroticDensity |-> -5],
   recommendations |-> <<"Check soil pH (likely >7.0)", "Apply chelated iron/nitrogen", "Review drainage efficiency">>,
   baseLossModifier |-> 6],
  [name |-> "Bacterial Leaf Spot",
   weights |-> [edgeDensity |-> 9, necroticDensity |-> 5, variance |-> 5],
   recommendations |-> <<"Avoid handling wet foliage", "Apply fixed copper bactericide", "Sanitize equipment between sectors">>,
   baseLossModifier |-> 11] >>

\* The vector runLocalInference uses when it is given no image.
NoImageDefault ==
  [greenness |-> 80, variance |-> 10, necroticDensity |-> 5,
   redness |-> 2, edgeDensity |-> 10, zonalIntegrity |-> 90]

\* The vector extractVisualFeatures resolves with when no 2d context exists.
NoContextDefault ==
  [greenness |-> 50, variance |-> 10, necroticDensity |-> 0,
   redness |-> 10, edgeDensity |-> 10, zonalIntegrity |-> 80]

(***************************************************************************)
(* Arithmetic helpers                                                      *)
(***************************************************************************)
Abs(n) == IF n < 0 THEN -n ELSE n

Min(a, b) == IF a < b THEN a ELSE b

\* Faulty variant of MathRound: the quotient is truncated.
MathTrunc(n, d) == n \div d

\* Math.round(n / d) for d > 0: the nearest integer, halves rounded up.
MathRound(n, d) == (2 * n + d) \div (2 * d)

RECURSIVE SumOver(_, _)
SumOver(f, S) ==
  IF S = {} THEN 0
  ELSE LET k == CHOOSE x \in S : TRUE IN f[k] + SumOver(f, S \ {k})

(***************************************************************************)
(* Local inference (Profile Matcher and Severity Heuristic)                *)
(***************************************************************************)
\* Faulty variant of ProfileScoreNum: a negative weight is used with its
\* sign.
ProfileScoreNumSigned(profile, visual) ==
  LET w == profile.weights
      contrib == [k \in DOMAIN w |->
                    IF w[k] > 0 THEN visual[k] * w[k]
                    ELSE (100 - visual[k]) * w[k]]
  IN SumOver(contrib, DOMAIN w)

\* Numerator of a profile's score: sum of value*weight, or (1-value)*|weight|
\* for a negative weight (hundredths * tenths).
ProfileScoreNum(profile, visual) ==
  LET w == profile.weights
      contrib == [k \in DOMAIN w |->
                    IF w[k] > 0 THEN visual[k] * w[k]
                    ELSE (100 - visual[k]) * Abs(w[k])]
  IN SumOver(contrib, DOMAIN w)

\* weightCount: the sum of the absolute weights (tenths).
ProfileWeightCount(profile) ==
  LET w == profile.weights
      a == [k \in DOMAIN w |-> Abs(w[k])]
  IN SumOver(a, DOMAIN w)

\* Faulty variant of BestAfter: a later profile with an equal score replaces
\* the best one.
RECURSIVE BestAfterLastWins(_, _)
BestAfterLastWins(visual, k) ==
  IF k = 0 THEN [idx |-> 0, n |-> -100, d |-> 1]
  ELSE LET prev == BestAfterLastWins(visual, k - 1)
           n == ProfileScoreNum(DISEASE_PROFILES[k], visual)
           d == ProfileWeightCount(DISEASE_PROFILES[k])
       IN IF n * prev.d >= prev.n * d
          THEN [idx |-> k, n |-> n, d |-> d]
          ELSE prev

\* The loop over DISEASE_PROFILES: best[k] is (bestProfile, maxScore) after
\* the first k profiles; a score is the fraction n / (d * 100) and index 0
\* stands for "no profile" with maxScore = -1.
RECURSIVE BestAfter(_, _)
BestAfter(visual, k) ==
  IF k = 0 THEN [idx |-> 0, n |-> -100, d |-> 1]
  ELSE LET prev == BestAfter(visual, k - 1)
           n == ProfileScoreNum(DISEASE_PROFILES[k], visual)
           d == ProfileWeightCount(DISEASE_PROFILES[k])
       IN IF n * prev.d > prev.n * d
          THEN [idx |-> k, n |-> n, d |-> d]
          ELSE prev

SensitivityMultiplier(sensitivity) ==
  IF sensitivity = "Aggressive" THEN 14
  ELSE IF sensitivity = "High" THEN 12 ELSE 10

\* Faulty variant of StressHeuristic: greenness counts as stress.
StressHeuristicGreen(visual, sensitivity) ==
  (visual.greenness * 4 + visual.necroticDensity * 4
     + (100 - visual.zonalIntegrity) * 2) * SensitivityMultiplier(sensitivity)

\* stressHeuristic * 10000.
StressHeuristic(visual, sensitivity) ==
  ((100 - visual.greenness) * 4 + visual.necroticDensity * 4
     + (100 - visual.zonalIntegrity) * 2) * SensitivityMultiplier(sensitivity)

\* The Analysis runLocalInference returns for a feature vector.
LocalAnalysis(visual, sensitivity) ==
  LET best == BestAfter(visual, Len(DISEASE_PROFILES))
      sh == StressHeuristic(visual, sensitivity)
      isSymptomless == sh > 2500 /\ visual.necroticDensity < 10 /\ visual.edgeDensity < 20
      matched == best.n > AcceptanceThreshold * best.d /\ best.idx # 0
      lossMod == IF matched THEN DISEASE_PROFILES[best.idx].baseLossModifier ELSE 10
  IN [expectedLoss |-> MathRound(sh * 35 * lossMod, 100000),
      confidenceScore |-> Min(920, 500 + (4 * best.n) \div best.d),
      riskLevel |-> IF sh > 5000 THEN "High" ELSE IF sh > 2000 THEN "Medium" ELSE "Low",
      recommendations |->
        IF matched THEN DISEASE_PROFILES[best.idx].recommendations
        ELSE IF isSymptomless
             THEN <<"Apply micronutrient foliar spray", "Verify soil moisture", "Conduct sap test">>
             ELSE <<"Isolate sector", "Apply organic fungicide", "Monitor spread">>,
      diseaseDetected |->
        IF matched THEN DISEASE_PROFILES[best.idx].name
        ELSE IF isSymptomless THEN "Physiological Stress" ELSE "Unknown Pathogen",
      diseaseDescription |->
        IF matched THEN <<"Local Diagnostic Engine Match", MathRound(best.n, best.d)>>
        ELSE <<IF isSymptomless THEN "Heuristic Analysis: latent stress"
               ELSE "Heuristic Analysis: atypical lesions", visual.zonalIntegrity>>,
      similarityScore |-> (10 * best.n) \div best.d,
      symptomlessStressDetected |-> isSymptomless,
      stressProbability |-> MathRound(sh, 100),
      treatmentUrgency |->
        IF sh > 4000 THEN "Immediate" ELSE IF sh > 1500 THEN "Within 48h" ELSE "Monitoring",
      detailedMetrics |->
        [leafCoverage |-> MathRound(visual.necroticDensity * 160, 100),
         spreadVelocity |-> IF visual.edgeDensity > 35 THEN "Aggressive"
                            ELSE IF visual.edgeDensity > 15 THEN "Moderate" ELSE "Slow",
         climateRiskFactor |-> 5]]

(***************************************************************************)
(* JavaScript values                                                       *)
(***************************************************************************)
\* The object {} and the value null, as JSON.parse returns them.
EmptyObject == [k \in {} |-> 0]

NullValue == [null |-> TRUE]

\* obj[field] > n; a comparison with undefined is false.
Gt(obj, field, n) == field \in DOMAIN obj /\ obj[field] > n

\* obj[field] >= n; a comparison with undefined is false.
Ge(obj, field, n) == field \in DOMAIN obj /\ obj[field] >= n

\* Truthiness of a boolean field; undefined is falsy.
Truthy(obj, field) == field \in DOMAIN obj /\ obj[field] = TRUE

(***************************************************************************)
(* The remote analysis service                                             *)
(***************************************************************************)
\* ANALYSIS_SCHEMA.required
RequiredFields ==
  {"expectedLoss", "confidenceScore", "riskLevel", "recommendations",
   "symptomlessStressDetected", "stressProbability", "treatmentUrgency",
   "diseaseDetected", "diseaseDescription"}

SatisfiesSchema(v) == v # NullValue /\ RequiredFields \subseteq DOMAIN v

RemoteMild ==
  [expectedLoss |-> 12, confidenceScore |-> 880, riskLevel |-> "Medium",
   recommendations |-> <<"Scout weekly">>,
   diseaseDetected |-> "Early Blight", diseaseDescription |-> <<"Cloud diagnosis", 0>>,
   similarityScore |-> 700, symptomlessStressDetected |-> FALSE,
   stressProbability |-> 12, treatmentUrgency |-> "Within 48h",
   detailedMetrics |-> [leafCoverage |-> 8, spreadVelocity |-> "Slow", climateRiskFactor |-> 3]]

\* The bodies (response.text) the model lets the service answer with.
ResponseTexts == {"", "<html>502 Bad Gateway</html>", "null", "mild"}

\* The errors generateContent rejects with.
RemoteErrors == {"NetworkError", "Timeout"}

\* JSON.parse(response.text || "{}"): ok = FALSE is a SyntaxError.
JSONParse(text) ==
  CASE text = "" -> [ok |-> TRUE, value |-> EmptyObject]
    [] text = "null" -> [ok |-> TRUE, value |-> NullValue]
    [] text = "mild" -> [ok |-> TRUE, value |-> RemoteMild]
    [] OTHER -> [ok |-> FALSE, value |-> EmptyObject]

\* What the await of generateContent can end with.
RemoteOutcomes ==
  [kind : {"reject"}, detail : RemoteErrors] \cup [kind : {"response"}, detail : ResponseTexts]

\* The kinds of remote failure: the call rejects, or the body does not parse.
IsRemoteFailure(o) == o.kind = "reject" \/ ~JSONParse(o.detail).ok

(***************************************************************************)
(* Images                                                                  *)
(***************************************************************************)
\* Data URLs the user can load into the Analyzer: one decodes to a leaf with
\* heavy necrosis, the other is not a decodable image (onload never fires).
Images == {"blight.jpg", "corrupt.jpg"}

Decodable(img) == img # "corrupt.jpg"

\* The crop the user selects for each image.
CropOf(img) == IF img = "blight.jpg" THEN "Tomato" ELSE "Corn"

\* The vector the pixel pass computes for a decoded image.
PixelFeatures(img) ==
  [greenness |-> 10, variance |-> 60, necroticDensity |-> 70,
   redness |-> 5, edgeDensity |-> 10, zonalIntegrity |-> 30]

\* extractVisualFeatures once img.onload has fired; hasContext is whether
\* canvas.getContext('2d') returned a context.
extractVisualFeatures(imageData, hasContext) ==
  IF hasContext THEN PixelFeatures(imageData) ELSE NoContextDefault

\* runLocalInference once its features are available.
runLocalInference(imageData, hasContext, sensitivity) ==
  LocalAnalysis(extractVisualFeatures(imageData, hasContext), sensitivity)

\* Whether canvas.getContext('2d') returns a context, as the model draws it.
CanvasContexts == {TRUE}

\* Every Analysis the local path can produce for an image and sensitivity.
LocalResults(imageData, sensitivity) ==
  {runLocalInference(imageData, c, sensitivity) : c \in CanvasContexts}

(***************************************************************************)
(* State                                                                   *)
(***************************************************************************)
VARIABLES
  store,         \* localStorage["agroguard_records"]: the records, newest first
  settings,      \* localStorage["agroguard_settings"] (and App's settings state)
  online,        \* navigator.onLine (and App's isOnline state)
  apiKey,        \* whether API_KEY is configured
  isSyncActive,  \* the module-level flag of the sync coordinator
  pass,          \* the invocations of syncOfflineRecords that are in flight
  analyzer,      \* the Analyzer component: its call in flight and its showResult
  syncState,     \* App's syncState: the last progress event it was given
  timers,        \* pending setTimeout callbacks of the 'completed' handler
  nextId,        \* source of record ids and timestamps
  settingsSaves, \* how many times the user has saved new settings
  effectDue,     \* App's effect has a changed dependency and has not yet re-run
  last,          \* what the last step was seen to do (read by no action)
  calls          \* for each record id of its domain, the analyzeCropHealth calls
                 \* the sync loop has made for it, counted up to MaxCalls

vars ==
  <<store, settings, online, apiKey, isSyncActive, pass, analyzer, syncState,
    timers, nextId, settingsSaves, effectDue, last, calls>>

Slots == 1..MaxConcurrent

IdlePass == [pc |-> "idle"]

IdleAnalyzer == [pc |-> "idle"]

NoCall == [caller |-> "none"]

NoStep == [outcome |-> "none"]

\* What a step that neither returns a call nor belongs to a pass leaves in
\* `last`: call is the call of analyzeCropHealth that returned in the step,
\* step is what the pass did with the record, passedOver is the ids of the
\* records the loop skipped in the step.
NoEvent == [call |-> NoCall, step |-> NoStep, passedOver |-> {}]

\* syncOfflineRecords returned at its guard.
Refused == [NoEvent EXCEPT !.step = [outcome |-> "refused"]]

\* No record's calls are counted.
NoCounts == [id \in {} |-> 0]

\* The changes of one setting the user can make in the model.
SettingsChanges ==
  {[insuranceThreshold |-> 10], [autoSync |-> FALSE]}

\* Failures of the store during one sync step: no update throws, the update
\* in the try block throws, or that one and the one in the catch block throw.
StoreFaults == {"none", "first", "both"}

\* Failures of the store reads at the start of a pass.
ReadFaults == {"none", "records", "settings"}

(***************************************************************************)
(* dbService                                                               *)
(***************************************************************************)
\* { ...r, ...u }
Merge(r, u) ==
  [f \in DOMAIN r \cup DOMAIN u |-> IF f \in DOMAIN u THEN u[f] ELSE r[f]]

IsPending(r) == Truthy(r, "isPendingSync")

getPendingRecords(records) == SelectSeq(records, IsPending)

saveRecord(records, record) == <<record>> \o records

\* Faulty variant of updateRecord: the spread is written the wrong way round
\* ({ ...updatedData, ...r }), so the stored fields win over the update.
updateRecordStaleWins(records, id, updatedData) ==
  [k \in DOMAIN records |->
     IF records[k].id = id THEN Merge(updatedData, records[k]) ELSE records[k]]

updateRecord(records, id, updatedData) ==
  [k \in DOMAIN records |->
     IF records[k].id = id THEN Merge(records[k], updatedData) ELSE records[k]]

deleteRecord(records, id) ==
  LET Other(r) == r.id # id IN SelectSeq(records, Other)

updateFeedback(records, id, feedback) ==
  [k \in DOMAIN records |->
     IF records[k].id = id THEN Merge(records[k], [feedback |-> feedback]) ELSE records[k]]

Ids(records) == {records[k].id : k \in DOMAIN records}

RecordOf(records, id) == records[CHOOSE k \in DOMAIN records : records[k].id = id]

(***************************************************************************)
(* analyzeCropHealth                                                       *)
(***************************************************************************)
\* Faulty variant of SkipRemote: the credential is not looked at.
SkipRemoteOfflineOnly(onLine) == ~onLine

\* The guard of line 232: the remote path is skipped entirely.
SkipRemote(onLine) == ~onLine \/ ~apiKey

\* The call up to its first suspension: either the local path (waiting for
\* the image to load) or the remote path (waiting for generateContent).
\* onLine is navigator.onLine as the call reads it. Three fields only observe
\* the call: skipped (it began offline or without API key), remoteInvoked
\* (generateContent was called) and fellBack (the catch block was entered).
analyzeCropHealth(onLine, imageData, cropType, sensitivity) ==
  [imageData |-> imageData, cropType |-> cropType, sensitivity |-> sensitivity,
   skipped |-> ~onLine \/ ~apiKey, fellBack |-> FALSE,
   phase |-> IF SkipRemote(onLine) THEN "local" ELSE "remote",
   remoteInvoked |-> ~SkipRemote(onLine)]

\* Faulty variant of RemoteSettled: the catch block returns null instead of
\* entering the local path.
RemoteSettledNoFallback(call, o) ==
  IF o.kind = "reject" \/ ~JSONParse(o.detail).ok
  THEN [returned |-> TRUE, value |-> NullValue,
        call |-> [call EXCEPT !.fellBack = TRUE]]
  ELSE [returned |-> TRUE, value |-> JSONParse(o.detail).value, call |-> call]

\* The try/catch around the remote call, once generateContent has settled with
\* outcome o: the parsed body is returned, or the catch block enters the
\* local path.
RemoteSettled(call, o) ==
  IF o.kind = "reject" \/ ~JSONParse(o.detail).ok
  THEN [returned |-> FALSE, value |-> EmptyObject,
        call |-> [call EXCEPT !.phase = "local", !.fellBack = TRUE]]
  ELSE [returned |-> TRUE, value |-> JSONParse(o.detail).value, call |-> call]

\* What is seen of a call when it returns value to its caller.
CallReturned(caller, call, value) ==
  [caller |-> caller, imageData |-> call.imageData, sensitivity |-> call.sensitivity,
   skipped |-> call.skipped, remoteInvoked |-> call.remoteInvoked,
   fellBack |-> call.fellBack, value |-> value]

(***************************************************************************)
(* syncOfflineRecords                                                      *)
(***************************************************************************)
\* (record.syncAttempts || 0)
Attempts(record) == IF "syncAttempts" \in DOMAIN record THEN record.syncAttempts ELSE 0

\* The dependencies of App's effect are loadData (remade when
\* settings.insuranceThreshold changes), processBackgroundSync (remade when
\* syncState.status changes) and settings.autoSync.
DepsChanged ==
  \/ syncState'.status # syncState.status
  \/ settings'.insuranceThreshold # settings.insuranceThreshold
  \/ settings'.autoSync # settings.autoSync

\* A step other than the effect itself: the effect becomes due when the step
\* changes one of its dependencies.
EffectAfter == effectDue' = (effectDue \/ DepsChanged)

\* What a pass reads of a record of its pending snapshot.
SnapshotFields == {"id", "cropType", "imageUrl", "syncAttempts"}

Snapshot(records) ==
  [k \in DOMAIN records |-> [f \in SnapshotFields \cap DOMAIN records[k] |-> records[k][f]]]

\* Faulty variant of SyncStatus: a loss equal to the insurance threshold is
\* already Critical.
SyncStatusAtThreshold(cloudResult, snap) ==
  IF Ge(cloudResult, "expectedLoss", snap.insuranceThreshold) THEN CRITICAL
  ELSE IF Gt(cloudResult, "expectedLoss", StressedLoss)
          \/ Truthy(cloudResult, "symptomlessStressDetected")
       THEN IF Gt(cloudResult, "expectedLoss", DiseasedLoss) THEN DISEASED ELSE STRESSED
       ELSE HEALTHY

\* The status the sync step computes from cloudResult.
SyncStatus(cloudResult, snap) ==
  IF Gt(cloudResult, "expectedLoss", snap.insuranceThreshold) THEN CRITICAL
  ELSE IF Gt(cloudResult, "expectedLoss", StressedLoss)
          \/ Truthy(cloudResult, "symptomlessStressDetected")
       THEN IF Gt(cloudResult, "expectedLoss", DiseasedLoss) THEN DISEASED ELSE STRESSED
       ELSE HEALTHY

\* Faulty variant of Skipped: the comparison with the cap is strict.
SkippedAboveCap(record) == Attempts(record) > MAX_SYNC_ATTEMPTS

\* The loop's skip of capped records: whether the loop passes over a record.
Skipped(record) == Attempts(record) >= MAX_SYNC_ATTEMPTS

\* The index of the first record at or after `from` the loop does not skip,
\* Len(pending) + 1 when the loop runs off the end.
NextIndex(pending, from) ==
  LET live == {j \in from..Len(pending) : ~Skipped(pending[j])}
  IN IF live = {} THEN Len(pending) + 1
     ELSE CHOOSE j \in live : \A k \in live : j <= k

\* Faulty variant of SyncRecordStep: the stored record is replaced by the
\* snapshot's copy of it with the step's result.
SyncRecordStepStaleCopy(records, record, cloudResult, snap, fault) ==
  LET attempts == Attempts(record) + 1
      tryThrows == cloudResult = NullValue \/ fault # "none"
      write(data) == [k \in DOMAIN records |->
                        IF records[k].id = record.id THEN Merge(record, data)
                        ELSE records[k]]
  IN IF ~tryThrows
     THEN [outcome |-> "success",
           store |-> write([analysis |-> cloudResult,
                            status |-> SyncStatus(cloudResult, snap),
                            isPendingSync |-> FALSE,
                            syncAttempts |-> attempts])]
     ELSE IF fault # "both"
          THEN [outcome |-> "caught", store |-> write([syncAttempts |-> attempts])]
          ELSE [outcome |-> "escaped", store |-> records]

\* Faulty variant of SyncRecordStep: a record of the snapshot that is no
\* longer stored is written back with the step's result.
SyncRecordStepWriteBack(records, record, cloudResult, snap, fault) ==
  LET attempts == Attempts(record) + 1
      tryThrows == cloudResult = NullValue \/ fault # "none"
      present == \E k \in DOMAIN records : records[k].id = record.id
      write(data) == IF present THEN updateRecord(records, record.id, data)
                     ELSE <<Merge(record, data)>> \o records
  IN IF ~tryThrows
     THEN [outcome |-> "success",
           store |-> write([analysis |-> cloudResult,
                            status |-> SyncStatus(cloudResult, snap),
                            isPendingSync |-> FALSE,
                            syncAttempts |-> attempts])]
     ELSE IF fault # "both"
          THEN [outcome |-> "caught", store |-> write([syncAttempts |-> attempts])]
          ELSE [outcome |-> "escaped", store |-> records]

\* The body of the inner try/catch for one record once analyzeCropHealth has
\* returned cloudResult: the store afterwards and how the body ended.
\* "success": the try block ran to its end; "caught": it threw and the catch
\* block's update went through; "escaped": the catch block's update threw.
SyncRecordStep(records, record, cloudResult, snap, fault) ==
  LET attempts == Attempts(record) + 1
      tryThrows == cloudResult = NullValue \/ fault # "none"
  IN IF ~tryThrows
     THEN [outcome |-> "success",
           store |-> updateRecord(records, record.id,
                       [analysis |-> cloudResult,
                        status |-> SyncStatus(cloudResult, snap),
                        isPendingSync |-> FALSE,
                        syncAttempts |-> attempts])]
     ELSE IF fault # "both"
          THEN [outcome |-> "caught",
                store |-> updateRecord(records, record.id, [syncAttempts |-> attempts])]
          ELSE [outcome |-> "escaped", store |-> records]

\* Faulty variant of RunLoop: the 'syncing' event carries the loop's
\* zero-based index.
RunLoopZeroBased(p, onLine, records, pending, snap, from, loadFails, ev) ==
  LET j == NextIndex(pending, from)
      total == Len(pending)
  IN /\ store' = records
     /\ last' = [ev EXCEPT !.passedOver = {pending[k].id : k \in from..(j - 1)}]
     /\ IF j <= total
        THEN /\ syncState' = [current |-> j - 1, total |-> total, status |-> "syncing",
                              currentCrop |-> pending[j].cropType]
             /\ pass' = [pass EXCEPT ![p] =
                           [pc |-> "running", pending |-> pending, i |-> j, settings |-> snap,
                            call |-> analyzeCropHealth(onLine, pending[j].imageUrl,
                                       pending[j].cropType, snap.stressSensitivity)]]
             /\ isSyncActive' = TRUE
             /\ calls' = IF pending[j].id \in DOMAIN calls
                          THEN [calls EXCEPT ![pending[j].id] = Min(@ + 1, MaxCalls)]
                          ELSE calls
             /\ UNCHANGED timers
        ELSE /\ loadFails \/ timers < MaxTimers
             /\ syncState' = [current |-> total, total |-> total, status |-> "completed"]
             /\ timers' = IF loadFails THEN timers ELSE timers + 1
             /\ pass' = [pass EXCEPT ![p] = IdlePass]
             /\ isSyncActive' = FALSE
             /\ UNCHANGED calls

\* The for loop from index `from` to its next suspension or to its end, with
\* the finally block; records is the store as the loop finds it, loadFails is
\* whether the 'completed' handler's loadData throws.
RunLoop(p, onLine, records, pending, snap, from, loadFails, ev) ==
  LET j == NextIndex(pending, from)
      total == Len(pending)
  IN /\ store' = records
     /\ last' = [ev EXCEPT !.passedOver = {pending[k].id : k \in from..(j - 1)}]
     /\ IF j <= total
        THEN /\ syncState' = [current |-> j, total |-> total, status |-> "syncing",
                              currentCrop |-> pending[j].cropType]
             /\ pass' = [pass EXCEPT ![p] =
                           [pc |-> "running", pending |-> pending, i |-> j, settings |-> snap,
                            call |-> analyzeCropHealth(onLine, pending[j].imageUrl,
                                       pending[j].cropType, snap.stressSensitivity)]]
             /\ isSyncActive' = TRUE
             /\ calls' = IF pending[j].id \in DOMAIN calls
                          THEN [calls EXCEPT ![pending[j].id] = Min(@ + 1, MaxCalls)]
                          ELSE calls
             /\ UNCHANGED timers
        ELSE /\ loadFails \/ timers < MaxTimers
             /\ syncState' = [current |-> total, total |-> total, status |-> "completed"]
             /\ timers' = IF loadFails THEN timers ELSE timers + 1
             /\ pass' = [pass EXCEPT ![p] = IdlePass]
             /\ isSyncActive' = FALSE
             /\ UNCHANGED calls

\* Faulty variant of SyncRefused: the flag is not looked at.
SyncRefusedFlagIgnored(onLine) == ~onLine \/ ~apiKey

\* The guard at the top of syncOfflineRecords.
SyncRefused(onLine) == isSyncActive \/ ~onLine \/ ~apiKey

FreeSlots == {p \in Slots : pass[p].pc = "idle"}

\* One invocation of syncOfflineRecords, up to its first suspension.
syncOfflineRecords(onLine, readFault, loadFails) ==
  IF SyncRefused(onLine)
  THEN /\ last' = Refused
       /\ UNCHANGED <<store, isSyncActive, pass, syncState, timers, calls>>
  ELSE IF FreeSlots = {}
  THEN /\ last' = NoEvent
       /\ UNCHANGED <<store, isSyncActive, pass, syncState, timers, calls>>
  ELSE IF readFault = "records"
  THEN /\ isSyncActive' = TRUE
       /\ last' = NoEvent
       /\ UNCHANGED <<store, pass, syncState, timers, calls>>
  ELSE IF getPendingRecords(store) = <<>>
  THEN /\ isSyncActive' = FALSE
       /\ last' = NoEvent
       /\ UNCHANGED <<store, pass, syncState, timers, calls>>
  ELSE IF readFault = "settings"
  THEN /\ isSyncActive' = TRUE
       /\ last' = NoEvent
       /\ UNCHANGED <<store, pass, syncState, timers, calls>>
  ELSE LET p == CHOOSE q \in FreeSlots : \A r \in FreeSlots : q <= r
       IN RunLoop(p, onLine, store, Snapshot(getPendingRecords(store)), settings, 1,
                  loadFails, NoEvent)

\* The rest of a record's step once analyzeCropHealth has returned value to
\* the pass in slot p, and the loop after it.
FinishStep(p, value, fault, loadFails) ==
  LET ps == pass[p]
      r == SyncRecordStep(store, ps.pending[ps.i], value, ps.settings, fault)
      ev == [call |-> CallReturned("sync", ps.call, value),
             step |-> [outcome |-> r.outcome, id |-> ps.pending[ps.i].id],
             passedOver |-> {}]
  IN IF r.outcome = "escaped"
     THEN /\ store' = r.store
          /\ last' = ev
          /\ pass' = [pass EXCEPT ![p] = IdlePass]
          /\ isSyncActive' = FALSE
          /\ UNCHANGED <<syncState, timers, calls>>
     ELSE RunLoop(p, online, r.store, ps.pending, ps.settings, ps.i + 1, loadFails, ev)

\* generateContent settles for the pass in slot p.
SyncRemoteSettles(p) ==
  /\ pass[p].pc = "running"
  /\ pass[p].call.phase = "remote"
  /\ \E o \in RemoteOutcomes :
       LET s == RemoteSettled(pass[p].call, o)
       IN IF s.returned
          THEN \E fault \in StoreFaults, loadFails \in BOOLEAN :
                 FinishStep(p, s.value, fault, loadFails)
          ELSE /\ pass' = [pass EXCEPT ![p].call = s.call]
               /\ last' = NoEvent
               /\ UNCHANGED <<store, isSyncActive, syncState, timers, calls>>
  /\ UNCHANGED <<settings, online, apiKey, analyzer, nextId, settingsSaves>>
  /\ EffectAfter

\* Faulty variant of SyncImageLoads: the local loss estimate grows with the
\* number of records stored as pending.
SyncImageLoadsByStore(p) ==
  /\ pass[p].pc = "running"
  /\ pass[p].call.phase = "local"
  /\ Decodable(pass[p].call.imageData)
  /\ \E hasContext \in CanvasContexts, fault \in StoreFaults, loadFails \in BOOLEAN :
       FinishStep(p,
                  [runLocalInference(pass[p].call.imageData, hasContext,
                                     pass[p].call.sensitivity)
                     EXCEPT !.expectedLoss = @ + Len(getPendingRecords(store))],
                  fault, loadFails)
  /\ UNCHANGED <<settings, online, apiKey, analyzer, nextId, settingsSaves>>
  /\ EffectAfter

\* img.onload fires for the pass in slot p (local path).
SyncImageLoads(p) ==
  /\ pass[p].pc = "running"
  /\ pass[p].call.phase = "local"
  /\ Decodable(pass[p].call.imageData)
  /\ \E hasContext \in CanvasContexts, fault \in StoreFaults, loadFails \in BOOLEAN :
       FinishStep(p,
                  runLocalInference(pass[p].call.imageData, hasContext, pass[p].call.sensitivity),
                  fault, loadFails)
  /\ UNCHANGED <<settings, online, apiKey, analyzer, nextId, settingsSaves>>
  /\ EffectAfter

(***************************************************************************)
(* App                                                                     *)
(***************************************************************************)
\* processBackgroundSync: App's guard, then syncOfflineRecords with App's
\* progress handler.
processBackgroundSync(onLine, readFault, loadFails) ==
  IF ~onLine \/ syncState.status = "syncing" \/ getPendingRecords(store) = <<>>
  THEN /\ last' = NoEvent
       /\ UNCHANGED <<store, isSyncActive, pass, syncState, timers, calls>>
  ELSE syncOfflineRecords(onLine, readFault, loadFails)

\* The browser goes online: handleStatus.
GoOnline ==
  /\ ~online
  /\ online' = TRUE
  /\ IF settings.autoSync
     THEN \E readFault \in ReadFaults, loadFails \in BOOLEAN :
            processBackgroundSync(TRUE, readFault, loadFails)
     ELSE /\ last' = NoEvent
          /\ UNCHANGED <<store, isSyncActive, pass, syncState, timers, calls>>
  /\ UNCHANGED <<settings, apiKey, analyzer, nextId, settingsSaves>>
  /\ EffectAfter

\* The browser goes offline: handleStatus.
GoOffline ==
  /\ online
  /\ online' = FALSE
  /\ last' = NoEvent
  /\ UNCHANGED <<store, settings, apiKey, isSyncActive, pass, analyzer, syncState,
                 timers, nextId, settingsSaves, calls>>
  /\ EffectAfter

\* The user clicks "Sync Cloud" (rendered when online and neither syncing nor
\* completed is shown).
ManualSync ==
  /\ online
  /\ syncState.status \notin {"syncing", "completed"}
  /\ \E readFault \in ReadFaults, loadFails \in BOOLEAN :
       processBackgroundSync(online, readFault, loadFails)
  /\ UNCHANGED <<settings, online, apiKey, analyzer, nextId, settingsSaves>>
  /\ EffectAfter

\* App's effect runs: at mount and after a render in which one of its
\* dependencies changed (see DepsChanged): it calls processBackgroundSync when
\* the browser is online and autoSync is set.
useEffect ==
  /\ effectDue
  /\ IF online /\ settings.autoSync
     THEN \E readFault \in ReadFaults, loadFails \in BOOLEAN :
            processBackgroundSync(online, readFault, loadFails)
     ELSE /\ last' = NoEvent
          /\ UNCHANGED <<store, isSyncActive, pass, syncState, timers, calls>>
  /\ UNCHANGED <<settings, online, apiKey, analyzer, nextId, settingsSaves>>
  /\ effectDue' = DepsChanged

\* The 3 s timer of the 'completed' handler fires.
CooldownElapsed ==
  /\ timers > 0
  /\ timers' = timers - 1
  /\ syncState' = [syncState EXCEPT !.status = "idle"]
  /\ last' = NoEvent
  /\ UNCHANGED <<store, settings, online, apiKey, isSyncActive, pass, analyzer, nextId, settingsSaves, calls>>
  /\ EffectAfter

(***************************************************************************)
(* Analyzer                                                                *)
(***************************************************************************)
\* The status handleStartAnalysis computes from result.
AnalyzerStatus(result, stressThreshold) ==
  IF Gt(result, "expectedLoss", AnalyzerCriticalLoss) THEN CRITICAL
  ELSE IF Gt(result, "expectedLoss", StressedLoss)
          \/ Truthy(result, "symptomlessStressDetected")
          \/ Ge(result, "stressProbability", stressThreshold)
       THEN IF Gt(result, "expectedLoss", DiseasedLoss) THEN DISEASED ELSE STRESSED
       ELSE HEALTHY

\* The user starts an analysis of a loaded image.
handleStartAnalysis(image) ==
  /\ analyzer.pc = "idle"
  /\ nextId <= MaxRecords
  /\ analyzer' = [pc |-> "analyzing", stressThreshold |-> settings.stressThreshold,
                  call |-> analyzeCropHealth(online, image, CropOf(image),
                                             settings.stressSensitivity)]
  /\ last' = NoEvent
  /\ UNCHANGED <<store, settings, online, apiKey, isSyncActive, pass, syncState,
                 timers, nextId, settingsSaves, calls>>
  /\ EffectAfter

\* handleStartAnalysis after analyzeCropHealth has returned result: a null
\* result throws in the status computation and only raises the alert.
AnalyzerFinish(result) ==
  /\ last' = [NoEvent EXCEPT !.call = CallReturned("analyzer", analyzer.call, result)]
  /\ IF result = NullValue
     THEN /\ analyzer' = IdleAnalyzer
          /\ UNCHANGED nextId
     ELSE /\ analyzer' =
               [pc |-> "result",
                showResult |->
                  [id |-> nextId, timestamp |-> nextId,
                   cropType |-> analyzer.call.cropType,
                   imageUrl |-> analyzer.call.imageData,
                   status |-> AnalyzerStatus(result, analyzer.stressThreshold),
                   analysis |-> result]]
          /\ nextId' = nextId + 1
  /\ UNCHANGED <<store, settings, online, apiKey, isSyncActive, pass, syncState, timers,
                 settingsSaves, calls>>

\* generateContent settles for the Analyzer's call.
AnalyzerRemoteSettles ==
  /\ analyzer.pc = "analyzing"
  /\ analyzer.call.phase = "remote"
  /\ \E o \in RemoteOutcomes :
       LET s == RemoteSettled(analyzer.call, o)
       IN IF s.returned
          THEN AnalyzerFinish(s.value)
          ELSE /\ analyzer' = [analyzer EXCEPT !.call = s.call]
               /\ last' = NoEvent
               /\ UNCHANGED <<store, settings, online, apiKey, isSyncActive, pass,
                              syncState, timers, nextId, settingsSaves, calls>>
  /\ EffectAfter

\* img.onload fires for the Analyzer's call (local path).
AnalyzerImageLoads ==
  /\ analyzer.pc = "analyzing"
  /\ analyzer.call.phase = "local"
  /\ Decodable(analyzer.call.imageData)
  /\ \E hasContext \in CanvasContexts :
       AnalyzerFinish(runLocalInference(analyzer.call.imageData, hasContext,
                                        analyzer.call.sensitivity))
  /\ EffectAfter

\* Faulty variant of handleNewRecord: the record is stored as reconciled
\* whatever the connectivity.
handleNewRecordNeverPending ==
  /\ analyzer.pc = "result"
  /\ store' = saveRecord(store,
                Merge(analyzer.showResult, [isPendingSync |-> FALSE, syncAttempts |-> 0]))
  /\ analyzer' = IdleAnalyzer
  /\ last' = NoEvent
  /\ UNCHANGED <<settings, online, apiKey, isSyncActive, pass, syncState, timers,
                 nextId, settingsSaves, calls>>
  /\ EffectAfter

\* The user confirms the shown result: onResult = handleNewRecord.
handleNewRecord ==
  /\ analyzer.pc = "result"
  /\ store' = saveRecord(store,
                Merge(analyzer.showResult, [isPendingSync |-> ~online, syncAttempts |-> 0]))
  /\ analyzer' = IdleAnalyzer
  /\ last' = NoEvent
  /\ UNCHANGED <<settings, online, apiKey, isSyncActive, pass, syncState, timers,
                 nextId, settingsSaves, calls>>
  /\ EffectAfter

\* The user presses Redo or leaves the Analyzer tab: its state is dropped.
LeaveAnalyzer ==
  /\ analyzer.pc # "idle"
  /\ analyzer' = IdleAnalyzer
  /\ UNCHANGED <<store, settings, online, apiKey, isSyncActive, pass, syncState,
                 timers, nextId, settingsSaves, calls>>
  /\ last' = NoEvent
  /\ EffectAfter

(***************************************************************************)
(* History and Settings                                                    *)
(***************************************************************************)
handleDelete(id) ==
  /\ analyzer.pc = "idle"
  /\ id \in Ids(store)
  /\ store' = deleteRecord(store, id)
  /\ last' = NoEvent
  /\ UNCHANGED <<settings, online, apiKey, isSyncActive, pass, analyzer, syncState,
                 timers, nextId, settingsSaves, calls>>
  /\ EffectAfter

\* Settings calls onUpdate({ ...settings, [key]: value }) = handleSettingsUpdate.
handleSettingsUpdate(change) ==
  /\ analyzer.pc = "idle"
  /\ Merge(settings, change) # settings
  /\ settingsSaves < MaxSettingsSaves
  /\ settings' = Merge(settings, change)
  /\ settingsSaves' = settingsSaves + 1
  /\ last' = NoEvent
  /\ UNCHANGED <<store, online, apiKey, isSyncActive, pass, analyzer, syncState,
                 timers, nextId, calls>>
  /\ EffectAfter

(***************************************************************************)
(* Specification                                                           *)
(***************************************************************************)
Init ==
  /\ store = <<>>
  /\ settings = DEFAULT_SETTINGS
  /\ online \in BOOLEAN
  /\ apiKey \in BOOLEAN
  /\ isSyncActive = FALSE
  /\ pass = [p \in Slots |-> IdlePass]
  /\ analyzer = IdleAnalyzer
  /\ syncState = [current |-> 0, total |-> 0, status |-> "idle"]
  /\ timers = 0
  /\ nextId = 1
  /\ settingsSaves = 0
  /\ effectDue = TRUE
  /\ last = NoEvent
  /\ calls = NoCounts

Next ==
  \/ useEffect
  \/ GoOnline
  \/ GoOffline
  \/ ManualSync
  \/ CooldownElapsed
  \/ \E p \in Slots : SyncRemoteSettles(p)
  \/ \E p \in Slots : SyncImageLoads(p)
  \/ \E image \in Images : handleStartAnalysis(image)
  \/ AnalyzerRemoteSettles
  \/ AnalyzerImageLoads
  \/ handleNewRecord
  \/ LeaveAnalyzer
  \/ \E id \in 1..MaxRecords : handleDelete(id)
  \/ \E change \in SettingsChanges : handleSettingsUpdate(change)

Spec == Init /\ [][Next]_vars

(***************************************************************************)
(* The status rule on its own: one pending record, a pass suspended at the *)
(* remote call for it, any insurance threshold the Settings slider offers, *)
(* and a remote answer with any expectedLoss and symptomless flag.         *)
(***************************************************************************)
\* The values of the insuranceThreshold slider (min 10, max 50, step 5).
InsuranceThresholds == {10 + 5 * n : n \in 0..8}

StatusRecord ==
  [id |-> 1, timestamp |-> 1, cropType |-> "Tomato", imageUrl |-> "blight.jpg",
   status |-> CRITICAL, analysis |-> runLocalInference("blight.jpg", TRUE, "Standard"),
   isPendingSync |-> TRUE, syncAttempts |-> 0]

\* A complete Analysis of the remote service with the given loss and flag.
RemoteAnalysis(loss, symptomless) ==
  [RemoteMild EXCEPT !.expectedLoss = loss, !.symptomlessStressDetected = symptomless]

InitStatus ==
  /\ store = <<StatusRecord>>
  /\ settings \in {[DEFAULT_SETTINGS EXCEPT !.insuranceThreshold = t] : t \in InsuranceThresholds}
  /\ online = TRUE
  /\ apiKey = TRUE
  /\ isSyncActive = TRUE
  /\ pass = [p \in Slots |->
               IF p = 1
               THEN [pc |-> "running", pending |-> Snapshot(<<StatusRecord>>), i |-> 1,
                     settings |-> settings,
                     call |-> analyzeCropHealth(TRUE, "blight.jpg", "Tomato",
                                                settings.stressSensitivity)]
               ELSE IdlePass]
  /\ analyzer = IdleAnalyzer
  /\ syncState = [current |-> 1, total |-> 1, status |-> "syncing", currentCrop |-> "Tomato"]
  /\ timers = 0
  /\ nextId = 2
  /\ settingsSaves = IF settings = DEFAULT_SETTINGS THEN 0 ELSE 1
  /\ effectDue = FALSE
  /\ last = NoEvent
  /\ calls = NoCounts

\* generateContent answers the suspended pass with a complete Analysis.
SyncStepWithAnalysis ==
  /\ pass[1].pc = "running"
  /\ pass[1].call.phase = "remote"
  /\ \E loss \in 0..MaxLoss, symptomless \in BOOLEAN :
       FinishStep(1, RemoteAnalysis(loss, symptomless), "none", FALSE)
  /\ UNCHANGED <<settings, online, apiKey, analyzer, nextId, settingsSaves>>
  /\ EffectAfter

NextStatus == SyncStepWithAnalysis

SpecStatus == InitStatus /\ [][NextStatus]_vars

(***************************************************************************)
(* The Sync Coordinator on a store of records saved offline, with the      *)
(* calls made for each record counted.                                     *)
(***************************************************************************)
\* A second record saved offline, after StatusRecord.
LaterRecord == [StatusRecord EXCEPT !.id = 2, !.timestamp = 2]

InitCalls ==
  /\ store \in {<<StatusRecord>>, <<LaterRecord, StatusRecord>>}
  /\ settings = DEFAULT_SETTINGS
  /\ online = FALSE
  /\ apiKey = TRUE
  /\ isSyncActive = FALSE
  /\ pass = [p \in Slots |-> IdlePass]
  /\ analyzer = IdleAnalyzer
  /\ syncState = [current |-> 0, total |-> 0, status |-> "idle"]
  /\ timers = 0
  /\ nextId = Len(store) + 1
  /\ settingsSaves = 0
  /\ effectDue = FALSE
  /\ last = NoEvent
  /\ calls = [id \in Ids(store) |-> 0]

NextCalls ==
  \/ useEffect
  \/ GoOnline
  \/ GoOffline
  \/ ManualSync
  \/ CooldownElapsed
  \/ \E p \in Slots : SyncRemoteSettles(p)
  \/ \E p \in Slots : SyncImageLoads(p)

SpecCalls == InitCalls /\ [][NextCalls]_vars

\* ---------------------------------------------------------------------
\* Edits during a pass: one pending record is stored; the user may analyse
\* and save a second record and edit the feedback text of stored records
\* while passes run.

Feedbacks == {"wrong diagnosis"}

\* The user saves a feedback text for a stored record
\* (dbService.updateFeedback).
handleFeedback(id, feedback) ==
  /\ id \in Ids(store)
  /\ updateFeedback(store, id, feedback) # store
  /\ store' = updateFeedback(store, id, feedback)
  /\ last' = NoEvent
  /\ UNCHANGED <<settings, online, apiKey, isSyncActive, pass, analyzer, syncState,
                 timers, nextId, settingsSaves, calls>>
  /\ EffectAfter

InitEdits ==
  /\ store = <<StatusRecord>>
  /\ settings = DEFAULT_SETTINGS
  /\ online = FALSE
  /\ apiKey = TRUE
  /\ isSyncActive = FALSE
  /\ pass = [p \in Slots |-> IdlePass]
  /\ analyzer = IdleAnalyzer
  /\ syncState = [current |-> 0, total |-> 0, status |-> "idle"]
  /\ timers = 0
  /\ nextId = 2
  /\ settingsSaves = 0
  /\ effectDue = FALSE
  /\ last = NoEvent
  /\ calls = NoCounts

NextEdits ==
  \/ useEffect
  \/ GoOnline
  \/ GoOffline
  \/ CooldownElapsed
  \/ \E p \in Slots : SyncRemoteSettles(p)
  \/ \E p \in Slots : SyncImageLoads(p)
  \/ \E image \in Images : handleStartAnalysis(image)
  \/ AnalyzerRemoteSettles
  \/ AnalyzerImageLoads
  \/ handleNewRecord
  \/ \E id \in 1..MaxRecords, feedback \in Feedbacks : handleFeedback(id, feedback)

SpecEdits == InitEdits /\ [][NextEdits]_vars

(***************************************************************************)
(* Local inference on its own: runLocalInference applied to feature        *)
(* vectors of a grid, as the pixel pass can deliver them for some image.   *)
(***************************************************************************)
\* Grid steps of a feature (bounds of the model).
CoarseSteps == 2
NecroticSteps == 10

CoarseLevels == {(100 * k) \div CoarseSteps : k \in 0..CoarseSteps}

NecroticLevels == {(100 * k) \div NecroticSteps : k \in 0..NecroticSteps}

RednessLevels == CoarseLevels \cup {80}

\* A vector whose best score (Chlorosis) is exactly 0.45.
ThresholdVector ==
  [greenness |-> 70, variance |-> 0, necroticDensity |-> 0,
   redness |-> 0, edgeDensity |-> 0, zonalIntegrity |-> 75]

\* A vector on which every profile scores exactly 0.5.
TieVector == [f \in FeatureNames |-> 50]

FeatureVectors ==
  [greenness : CoarseLevels, variance : CoarseLevels, necroticDensity : NecroticLevels,
   redness : RednessLevels, edgeDensity : CoarseLevels, zonalIntegrity : CoarseLevels]
    \cup {NoImageDefault, NoContextDefault, ThresholdVector, TieVector}
    \cup {PixelFeatures(img) : img \in Images}

\* A call of runLocalInference whose features are visual.
LocalCall(visual, sensitivity) ==
  [caller |-> "local", visual |-> visual, sensitivity |-> sensitivity]

InitLocal ==
  /\ store = <<>>
  /\ settings = DEFAULT_SETTINGS
  /\ online = FALSE
  /\ apiKey = FALSE
  /\ isSyncActive = FALSE
  /\ pass = [p \in Slots |-> IdlePass]
  /\ analyzer = IdleAnalyzer
  /\ syncState = [current |-> 0, total |-> 0, status |-> "idle"]
  /\ timers = 0
  /\ nextId = 1
  /\ settingsSaves = 0
  /\ effectDue = FALSE
  /\ \E visual \in FeatureVectors, sensitivity \in StressSensitivity :
       last = [NoEvent EXCEPT !.call = LocalCall(visual, sensitivity)]
  /\ calls = NoCounts

\* runLocalInference returns for the features of the call.
LocalInference ==
  /\ last.call.caller = "local"
  /\ "value" \notin DOMAIN last.call
  /\ last' = [last EXCEPT !.call =
                Merge(last.call,
                      [value |-> LocalAnalysis(last.call.visual, last.call.sensitivity)])]
  /\ UNCHANGED <<store, settings, online, apiKey, isSyncActive, pass, analyzer, syncState,
                 timers, nextId, settingsSaves, effectDue, calls>>

\* The next call, for an image that differs from the last one in
\* necroticDensity only, with the same sensitivity.
LocalInferenceOtherNecrosis ==
  /\ last.call.caller = "local"
  /\ "value" \in DOMAIN last.call
  /\ \E nec \in NecroticLevels \ {last.call.visual.necroticDensity} :
       LET visual == [last.call.visual EXCEPT !.necroticDensity = nec]
       IN last' = [last EXCEPT !.call =
                     Merge(LocalCall(visual, last.call.sensitivity),
                           [value |-> LocalAnalysis(visual, last.call.sensitivity)])]
  /\ UNCHANGED <<store, settings, online, apiKey, isSyncActive, pass, analyzer, syncState,
                 timers, nextId, settingsSaves, effectDue, calls>>

NextLocal == LocalInference \/ LocalInferenceOtherNecrosis

SpecLocal == InitLocal /\ [][NextLocal]_vars

(***************************************************************************)
(* Properties                                                              *)
(***************************************************************************)
RunningPasses == {p \in Slots : pass[p].pc = "running"}

SuspendedAtRemote == \E p \in RunningPasses : pass[p].call.phase = "remote"

\* The calls of analyzeCropHealth that have not returned yet.
InFlight ==
  {pass[p].call : p \in RunningPasses}
    \cup (IF analyzer.pc = "analyzing" THEN {analyzer.call} ELSE {})

AtCap(record) == Attempts(record) >= 3

CallHasReturned == last.call.caller # "none"

ReturnedLocalResult ==
  last.call.value \in LocalResults(last.call.imageData, last.call.sensitivity)

\* C1: at most one sync pass is active at any time, and a trigger (online
\* event, effect run, manual click) that fires while a pass is suspended at a
\* remote call starts no call of the orchestrator (pass unchanged), emits no
\* progress event (syncState and timers unchanged) and changes no record.
C1_SecondInvocationIsNoOp ==
  /\ [](Cardinality(RunningPasses) <= 1)
  /\ [][(SuspendedAtRemote /\ (ManualSync \/ GoOnline \/ useEffect))
          => UNCHANGED <<store, pass, syncState, isSyncActive, timers, calls>>]_vars

\* C1 witness: syncOfflineRecords has just returned at its guard while a pass
\* is suspended at a remote call.
C1_Witness ==
  /\ last.step.outcome = "refused"
  /\ isSyncActive
  /\ SuspendedAtRemote

\* C2: a pass never hands a record at the cap to the orchestrator, and no
\* step of a pass changes a pending record that is at the cap.
C2_CappedRecordUntouched ==
  /\ [](\A p \in RunningPasses :
          /\ ~AtCap(pass[p].pending[pass[p].i])
          /\ \A k \in DOMAIN store :
               store[k].id = pass[p].pending[pass[p].i].id => ~AtCap(store[k]))
  /\ [][pass' # pass =>
          \A k \in DOMAIN store :
            (IsPending(store[k]) /\ AtCap(store[k]))
              => (k \in DOMAIN store' /\ store'[k] = store[k])]_vars

\* C2 witness: in the step just taken a pass finished one record and passed
\* over another one, which is at the cap and still pending.
C2_Witness ==
  /\ last.step.outcome \in {"success", "caught"}
  /\ \E id \in last.passedOver :
       \E k \in DOMAIN store :
         store[k].id = id /\ AtCap(store[k]) /\ IsPending(store[k])

\* C3: when the remote call made for a record during a pass has failed (and
\* the store does not fail), the step leaves the record as it was except
\* that syncAttempts is one higher: analysis and status unchanged,
\* isPendingSync still true.
C3_FailedRemoteCallLeavesRecordPending ==
  [][(last'.call.caller = "sync" /\ last'.call.fellBack
        /\ last'.step.outcome # "escaped")
       => \A k \in DOMAIN store :
            store[k].id = last'.step.id
              => /\ k \in DOMAIN store'
                 /\ store'[k] = [store[k] EXCEPT !.syncAttempts = @ + 1]]_vars

\* C4: the flag is true only while the pass that set it is still running; it
\* is false after every exit of that pass.
C4_FlagClearedOnEveryExit == isSyncActive => RunningPasses # {}

\* C5: a remote failure (rejection or unparseable body) never ends the call:
\* the call enters the local path, and what it returns is the local analysis
\* of the same image and sensitivity.
C5_RemoteFailureFallsBackToLocal ==
  /\ \A c \in InFlight :
       c.phase = "remote" =>
         \A o \in RemoteOutcomes :
           (o.kind = "reject" \/ o.detail = "<html>502 Bad Gateway</html>")
             => LET s == RemoteSettled(c, o)
                IN /\ ~s.returned
                   /\ s.call.phase = "local"
                   /\ s.call.imageData = c.imageData
                   /\ s.call.sensitivity = c.sensitivity
  /\ (CallHasReturned /\ last.call.fellBack) => ReturnedLocalResult

\* C5 witness: a call whose remote call failed has returned.
C5_Witness == CallHasReturned /\ last.call.fellBack /\ last.call.remoteInvoked

\* C6: a call made offline or without API key never invokes the remote
\* service and returns the local analysis of its image and sensitivity.
C6_SkippedCallIsLocal ==
  /\ \A c \in InFlight : c.skipped => (~c.remoteInvoked /\ c.phase = "local")
  /\ (CallHasReturned /\ last.call.skipped)
       => (~last.call.remoteInvoked /\ ReturnedLocalResult)

\* C6 witness: a call made online without API key has returned.
C6_Witness == CallHasReturned /\ last.call.skipped /\ ~apiKey /\ online

\* C7: no call returns, and no record holds, an object that lacks a required
\* field of the Analysis schema.
C7_SchemaViolationIsFailure ==
  /\ (CallHasReturned /\ last.call.value # NullValue) => SatisfiesSchema(last.call.value)
  /\ \A k \in DOMAIN store : SatisfiesSchema(store[k].analysis)

\* C8 as amended: the status a successful sync step writes is Critical if
\* expectedLoss > insuranceThreshold, otherwise Diseased if expectedLoss > 15,
\* otherwise Stressed if expectedLoss > 5 or symptomlessStressDetected,
\* otherwise Healthy.
C8_StatusOfSyncedRecord ==
  last.step.outcome = "success" =>
    LET a == last.call.value
    IN RecordOf(store, last.step.id).status =
         IF a.expectedLoss > settings.insuranceThreshold THEN "Critical"
         ELSE IF a.expectedLoss > 15 THEN "Diseased"
         ELSE IF a.expectedLoss > 5 \/ a.symptomlessStressDetected THEN "Stressed"
         ELSE "Healthy"

\* C8 witness: a successful step for a loss between 6 and 15 without
\* symptomless stress, below the threshold.
C8_Witness ==
  /\ last.step.outcome = "success"
  /\ last.call.value.expectedLoss \in 6..15
  /\ ~last.call.value.symptomlessStressDetected
  /\ last.call.value.expectedLoss <= settings.insuranceThreshold
  /\ RecordOf(store, last.step.id).status = "Stressed"

\* C8 as stated: ... otherwise Stressed if symptomlessStressDetected,
\* otherwise Healthy (a loss of at most 15 without symptomless stress gives
\* Healthy).
C8_StatusAsStated ==
  last.step.outcome = "success" =>
    LET a == last.call.value
    IN RecordOf(store, last.step.id).status =
         IF a.expectedLoss > settings.insuranceThreshold THEN "Critical"
         ELSE IF a.expectedLoss > 15 THEN "Diseased"
         ELSE IF a.symptomlessStressDetected THEN "Stressed"
         ELSE "Healthy"

\* C9: a successful sync step replaces the record's analysis by the returned
\* Analysis, writes a status, clears isPendingSync and adds one to
\* syncAttempts; every other field of the record, every other record and the
\* order of the store stay as they were.
C9_SuccessfulStepFrame ==
  [][last'.step.outcome = "success" =>
       /\ DOMAIN store' = DOMAIN store
       /\ \A k \in DOMAIN store :
            IF store[k].id = last'.step.id
            THEN /\ DOMAIN store'[k] = DOMAIN store[k]
                 /\ store'[k].analysis = last'.call.value
                 /\ store'[k].status \in CropStatus
                 /\ store'[k].isPendingSync = FALSE
                 /\ store'[k].syncAttempts = store[k].syncAttempts + 1
                 /\ \A f \in DOMAIN store[k] \
                               {"analysis", "status", "isPendingSync", "syncAttempts"} :
                      store'[k][f] = store[k][f]
            ELSE store'[k] = store[k]]_vars

\* C9 witness: a successful step has just updated one of two stored records.
C9_Witness ==
  /\ last.step.outcome = "success"
  /\ Len(store) = 2
  /\ last.step.id \in Ids(store)
  /\ ~IsPending(RecordOf(store, last.step.id))

\* C10: a call that is in its local path can always return: the step that
\* delivers the image's features is enabled, whatever the image.
C10_LocalPathCanReturn ==
  /\ (analyzer.pc = "analyzing" /\ analyzer.call.phase = "local")
       => ENABLED AnalyzerImageLoads
  /\ \A p \in RunningPasses :
       pass[p].call.phase = "local" => ENABLED SyncImageLoads(p)


\* C11: a pass that has started can always go on towards its end: while the
\* flag is set for a running pass, the step that delivers the result of the
\* record it is analysing (remote settlement or image load) is enabled, so
\* the pass cannot hold the flag for ever.
C11_RunningPassCanProceed ==
  \A p \in RunningPasses :
    isSyncActive => ENABLED (SyncRemoteSettles(p) \/ SyncImageLoads(p))


\* C13: within a pass the records are analysed oldest first: while the pass
\* is analysing a record, every record of its pending list that was saved
\* earlier (smaller id) and is not passed over for the cap comes before it in
\* the list, so its step is already done.
C13_OldestPendingFirst ==
  \A p \in RunningPasses :
    \A j \in DOMAIN pass[p].pending :
      (/\ pass[p].pending[j].id < pass[p].pending[pass[p].i].id
       /\ ~Skipped(pass[p].pending[j]))
        => j < pass[p].i


\* The pass in slot p begins the analysis of a record in this step.
BeginsRecord(p) ==
  /\ pass'[p].pc = "running"
  /\ pass[p].pc = "running" => pass'[p].i # pass[p].i

\* The pass in slot p runs off the end of its loop in this step.
RunsToEnd(p) ==
  /\ pass[p].pc = "running"
  /\ pass'[p].pc = "idle"
  /\ last'.step.outcome # "escaped"

\* C14: a pass reports one 'syncing' event for each record it analyses, when
\* it begins that record, with current = the record's index in the pending
\* list (1..total, strictly increasing within the pass), total = the number
\* of pending records at pass start and the record's crop label; records
\* between two events are the ones passed over for the cap; a pass that runs
\* to the end reports 'completed' with current = total = that number, and no
\* 'syncing' event is reported by anything else.
C14_ProgressEvents ==
  [][/\ \A p \in Slots :
          /\ BeginsRecord(p) =>
               LET ps == pass'[p]
                   from == IF pass[p].pc = "running" THEN pass[p].i + 1 ELSE 1
               IN /\ syncState' = [current |-> ps.i, total |-> Len(ps.pending),
                                   status |-> "syncing",
                                   currentCrop |-> ps.pending[ps.i].cropType]
                  /\ ps.i \in from..Len(ps.pending)
                  /\ ~Skipped(ps.pending[ps.i])
                  /\ \A k \in from..(ps.i - 1) : Skipped(ps.pending[k])
                  /\ IF pass[p].pc = "running"
                     THEN ps.pending = pass[p].pending
                     ELSE ps.pending = Snapshot(getPendingRecords(store))
          /\ RunsToEnd(p) =>
               /\ syncState' = [current |-> Len(pass[p].pending),
                                total |-> Len(pass[p].pending),
                                status |-> "completed"]
               /\ \A k \in (pass[p].i + 1)..Len(pass[p].pending) :
                    Skipped(pass[p].pending[k])
     /\ (syncState' # syncState /\ syncState'.status = "syncing")
          => \E p \in Slots : BeginsRecord(p)
    ]_vars

\* C14 witness: a pass over two pending records has just run to its end
\* after the step of the second record.
C14_Witness ==
  /\ syncState = [current |-> 2, total |-> 2, status |-> "completed"]
  /\ last.step.outcome \in {"success", "caught"}
  /\ last.passedOver = {}
  /\ RunningPasses = {}
  /\ Len(store) = 2

\* C14 as stated, one 'syncing' event for each record of the pending list:
\* the events of a pass carry current = 1, 2, ..., total without a gap, and
\* the pass ends after the event of the last record.
C14_EveryPendingRecordReported ==
  [][\A p \in Slots :
       /\ BeginsRecord(p) =>
            pass'[p].i = (IF pass[p].pc = "running" THEN pass[p].i + 1 ELSE 1)
       /\ RunsToEnd(p) => pass[p].i = Len(pass[p].pending)
    ]_vars


\* C15: the caller's sync state is 'syncing' only while a pass is running:
\* once every pass has ended, a terminal status has been reported, so the
\* state is not left at 'syncing'.
C15_NotSyncingAfterPassEnded ==
  syncState.status = "syncing" => RunningPasses # {}


\* The call of the local engine has returned.
LocalReturned == last.call.caller = "local" /\ "value" \in DOMAIN last.call

\* C16: for a feature vector with components in [0,1], the normalized score
\* of each of the five profiles (numerator over weightCount) lies in [0,1].
C16_ScoreInUnitInterval ==
  (/\ last.call.caller = "local"
   /\ \A f \in FeatureNames : last.call.visual[f] \in 0..100)
    => \A k \in DOMAIN DISEASE_PROFILES :
         /\ ProfileWeightCount(DISEASE_PROFILES[k]) > 0
         /\ ProfileScoreNum(DISEASE_PROFILES[k], last.call.visual) >= 0
         /\ ProfileScoreNum(DISEASE_PROFILES[k], last.call.visual)
              <= 100 * ProfileWeightCount(DISEASE_PROFILES[k])

\* C16 witness: a call has returned for a vector on which one profile scores
\* exactly 0 and another exactly 1.
C16_Witness ==
  /\ LocalReturned
  /\ \E k, m \in DOMAIN DISEASE_PROFILES :
       /\ ProfileScoreNum(DISEASE_PROFILES[k], last.call.visual) = 0
       /\ ProfileScoreNum(DISEASE_PROFILES[m], last.call.visual)
            = 100 * ProfileWeightCount(DISEASE_PROFILES[m])
  /\ last.call.value.similarityScore = 1000


\* The names of the five profiles.
ProfileNames == {DISEASE_PROFILES[k].name : k \in DOMAIN DISEASE_PROFILES}

\* C17: for the no-image default vector under Standard sensitivity every
\* profile scores below 0.45, so no profile is confirmed, riskLevel is Low
\* and symptomlessStressDetected is false.
C17_NoImageDefaultIsLowRisk ==
  (/\ LocalReturned
   /\ last.call.visual = NoImageDefault
   /\ last.call.sensitivity = "Standard")
    => /\ \A k \in DOMAIN DISEASE_PROFILES :
            100 * ProfileScoreNum(DISEASE_PROFILES[k], NoImageDefault)
              < 45 * 100 * ProfileWeightCount(DISEASE_PROFILES[k])
       /\ last.call.value.similarityScore < 450
       /\ last.call.value.diseaseDetected \notin ProfileNames
       /\ last.call.value.riskLevel = "Low"
       /\ last.call.value.symptomlessStressDetected = FALSE

\* C17 witness: the call for the no-image default vector under Standard
\* sensitivity has returned.
C17_Witness ==
  /\ LocalReturned
  /\ last.call.visual = NoImageDefault
  /\ last.call.sensitivity = "Standard"
  /\ last.call.value.diseaseDetected = "Unknown Pathogen"


\* C18: of two calls with the same sensitivity whose vectors differ in
\* necroticDensity only, the one with the larger necroticDensity returns an
\* expectedLoss at least as large as the other's.
C18_LossMonotoneInNecrosis ==
  [][(/\ LocalReturned
      /\ LocalReturned'
      /\ last'.call.sensitivity = last.call.sensitivity
      /\ \A f \in FeatureNames \ {"necroticDensity"} :
           last'.call.visual[f] = last.call.visual[f]
      /\ last'.call.visual.necroticDensity > last.call.visual.necroticDensity)
       => last'.call.value.expectedLoss >= last.call.value.expectedLoss]_vars


\* Profile k scores strictly more than profile m on visual.
ScoresMore(visual, k, m) ==
  ProfileScoreNum(DISEASE_PROFILES[k], visual) * ProfileWeightCount(DISEASE_PROFILES[m])
    > ProfileScoreNum(DISEASE_PROFILES[m], visual) * ProfileWeightCount(DISEASE_PROFILES[k])

\* Profile k is the first, in declaration order, of the profiles with the
\* highest score on visual.
FirstOfHighest(visual, k) ==
  \A m \in DOMAIN DISEASE_PROFILES :
    IF m < k THEN ScoresMore(visual, k, m) ELSE ~ScoresMore(visual, m, k)

\* The score of profile k on visual is strictly greater than 0.45.
AboveThreshold(visual, k) ==
  ProfileScoreNum(DISEASE_PROFILES[k], visual)
    > AcceptanceThreshold * ProfileWeightCount(DISEASE_PROFILES[k])

\* C19: the profile the matcher selects is the first of the profiles with
\* the highest score; it is reported as the detected disease, with its
\* recommendations, exactly when its score is strictly greater than 0.45;
\* otherwise the result is 'Physiological Stress' or 'Unknown Pathogen'.
C19_FirstHighestAboveThreshold ==
  LocalReturned =>
    \A k \in DOMAIN DISEASE_PROFILES :
      FirstOfHighest(last.call.visual, k) =>
        /\ last.call.value.similarityScore
             = (10 * ProfileScoreNum(DISEASE_PROFILES[k], last.call.visual))
                 \div ProfileWeightCount(DISEASE_PROFILES[k])
        /\ IF AboveThreshold(last.call.visual, k)
           THEN /\ last.call.value.diseaseDetected = DISEASE_PROFILES[k].name
                /\ last.call.value.recommendations = DISEASE_PROFILES[k].recommendations
           ELSE last.call.value.diseaseDetected
                  \in {"Physiological Stress", "Unknown Pathogen"}

\* C19 witness: two profiles tie at the highest score, above 0.45, and the
\* one declared first is the detected disease.
C19_Witness ==
  /\ LocalReturned
  /\ \E k, m \in DOMAIN DISEASE_PROFILES :
       /\ k < m
       /\ FirstOfHighest(last.call.visual, k)
       /\ ~ScoresMore(last.call.visual, k, m)
       /\ AboveThreshold(last.call.visual, k)
       /\ last.call.value.diseaseDetected = DISEASE_PROFILES[k].name
  /\ last.call.visual = TieVector

\* A call has returned for a vector whose highest score is exactly 0.45: no
\* profile is confirmed.
C19_AtThreshold ==
  /\ LocalReturned
  /\ last.call.value.similarityScore = 450
  /\ last.call.value.diseaseDetected \notin ProfileNames


\* The vector of the worked example.
ExampleVector ==
  [greenness |-> 10, necroticDensity |-> 70, variance |-> 60,
   redness |-> 5, edgeDensity |-> 10, zonalIntegrity |-> 30]

C12_AtMostThreeCalls ==
  \A id \in DOMAIN calls : calls[id] <= MAX_SYNC_ATTEMPTS

\* The other parts of C12: within a pass no record is called twice; a
\* record's syncAttempts never exceeds 3 and never decreases; a record whose
\* pending flag is cleared is not called by a pass and is not rewritten.
C12_CountedAttempts ==
  [][/\ \A k \in DOMAIN store' : Attempts(store'[k]) <= MAX_SYNC_ATTEMPTS
     /\ \A id \in Ids(store) \cap Ids(store') :
          /\ Attempts(RecordOf(store', id)) >= Attempts(RecordOf(store, id))
          /\ ~IsPending(RecordOf(store, id)) => RecordOf(store', id) = RecordOf(store, id)
     /\ \A p \in Slots :
          BeginsRecord(p) =>
            LET id == pass'[p].pending[pass'[p].i].id
            IN /\ id \in DOMAIN calls => calls'[id] = Min(calls[id] + 1, MaxCalls)
               /\ \A other \in DOMAIN calls \ {id} : calls'[other] = calls[other]
               /\ id \in Ids(store') => IsPending(RecordOf(store', id))
               /\ pass[p].pc = "running" =>
                    id \notin {pass[p].pending[k].id : k \in 1..pass[p].i}
     /\ calls' # calls => \E p \in Slots : BeginsRecord(p)
    ]_vars


\* ev records a call of analyzeCropHealth that returned by its local path.
LocalReturn(ev) ==
  /\ ev.call.caller # "none"
  /\ ev.call.skipped \/ ev.call.fellBack

C22_NewRecordPendingIffOffline ==
  [][Len(store') > Len(store) =>
       /\ Len(store') = Len(store) + 1
       /\ Tail(store') = store
       /\ Head(store').id \notin Ids(store)
       /\ Head(store').syncAttempts = 0
       /\ Head(store').isPendingSync = ~online
       /\ online' = online]_vars

\* C22 witness: the store holds a record created offline (pending, no
\* attempt) and a record created online (not pending, no attempt).
C22_Witness ==
  \E k, m \in DOMAIN store :
    /\ store[k].isPendingSync = TRUE
    /\ store[k].syncAttempts = 0
    /\ store[m].isPendingSync = FALSE
    /\ store[m].syncAttempts = 0


\* C23: the status a successful sync step writes is the one computed from
\* the returned Analysis with the settings stored at the moment of the step
\* (a threshold saved while the pass was suspended applies to the records
\* processed afterwards).
C23_StepUsesCurrentSettings ==
  (last.step.outcome = "success" /\ last.step.id \in Ids(store)) =>
    RecordOf(store, last.step.id).status = SyncStatus(last.call.value, settings)


\* C24: for a feature vector with components in [0,1] and any of the four
\* sensitivity levels, the Analysis of the local engine has stressProbability
\* in 0..100 and a non-negative expectedLoss.
C24_StressProbabilityIsPercentage ==
  (/\ LocalReturned
   /\ \A f \in FeatureNames : last.call.visual[f] \in 0..100)
    => /\ last.call.value.stressProbability \in 0..100
       /\ last.call.value.expectedLoss \in Nat


\* C25: the status a successful sync step writes for an Analysis is the
\* status the Analyzer computes for the same Analysis under the same
\* settings.
C25_SyncStatusIsAnalyzerStatus ==
  (last.step.outcome = "success" /\ last.step.id \in Ids(store)) =>
    RecordOf(store, last.step.id).status
      = AnalyzerStatus(last.call.value, settings.stressThreshold)


\* C26: a sync step for a record whose analysis call found the browser
\* offline (connectivity lost after the pass started) and so returned the
\* local heuristic's result leaves the record pending with the Analysis it
\* had.
C26_OfflineStepKeepsRecordPending ==
  [][(last'.call.caller = "sync" /\ last'.call.skipped)
       => \A k \in DOMAIN store :
            store[k].id = last'.step.id
              => /\ k \in DOMAIN store'
                 /\ IsPending(store'[k]) = IsPending(store[k])
                 /\ store'[k].analysis = store[k].analysis]_vars


\* C27: when the Analyzer's call has just returned by the local path (made
\* offline, without credential, or after a failed remote call) and the user
\* saves the shown record in the next step, the record is stored with
\* isPendingSync = TRUE.
C27_LocalAnalysisStoredPending ==
  [][(/\ last.call.caller = "analyzer"
      /\ LocalReturn(last)
      /\ Len(store') > Len(store))
       => /\ Head(store').analysis = last.call.value
          /\ IsPending(Head(store'))]_vars


\* C28: a sync step never adds or removes a record id, and the step made for
\* a record that is no longer stored (deleted while the pass was suspended)
\* leaves the whole store as it is.
C28_DeletedRecordNotRecreated ==
  [][last'.step.outcome \in {"success", "caught", "escaped"}
       => /\ Ids(store') = Ids(store)
          /\ Len(store') = Len(store)
          /\ last'.step.id \notin Ids(store) => store' = store]_vars

\* C28 witness: a step of a pass ended with a result for a record that had
\* been deleted during the call, and another record is stored.
C28_Witness ==
  /\ last.step.outcome = "success"
  /\ last.step.id \notin Ids(store)
  /\ store # <<>>


\* The ids of the records a pass took as pending when it started.
SnapshotIds(p) == {pass[p].pending[k].id : k \in DOMAIN pass[p].pending}

FeedbackOf(r) == IF "feedback" \in DOMAIN r THEN <<r.feedback>> ELSE <<>>

\* C29: a sync step keeps every stored record in its place, leaves every
\* record other than the one it was made for exactly as it is, and keeps the
\* feedback of the record it writes; the record it was made for is one of
\* the snapshot the pass took when it started, the snapshot does not change
\* while the pass runs, and a record saved during a pass is not in the
\* snapshot of a running pass.
C29_EditsDuringPassPreserved ==
  [][/\ last'.step.outcome \in {"success", "caught", "escaped"}
          => /\ Len(store') = Len(store)
             /\ \A k \in DOMAIN store :
                  /\ store'[k].id = store[k].id
                  /\ FeedbackOf(store'[k]) = FeedbackOf(store[k])
                  /\ store[k].id # last'.step.id => store'[k] = store[k]
             /\ \E p \in Slots :
                  /\ pass[p].pc = "running"
                  /\ last'.step.id = pass[p].pending[pass[p].i].id
     /\ \A p \in Slots :
          /\ (pass[p].pc = "running" /\ pass'[p].pc = "running")
               => pass'[p].pending = pass[p].pending
          /\ (pass[p].pc = "running" /\ Len(store') > Len(store))
               => /\ pass'[p] = pass[p]
                  /\ Head(store').id \notin SnapshotIds(p)]_vars

\* C29 witness: the pass for the one record of its snapshot has ended with a
\* successful step; the record it wrote carries a feedback text, and the
\* store holds another pending record that no pass has tried (saved while
\* the pass was suspended, after its snapshot).
C29_Witness ==
  /\ last.step.outcome = "success"
  /\ syncState.status = "completed"
  /\ \E k, m \in DOMAIN store :
       /\ store[k].id = last.step.id
       /\ FeedbackOf(store[k]) # <<>>
       /\ store[m].id # last.step.id
       /\ IsPending(store[m])
       /\ store[m].syncAttempts = 0


\* Every pending record stored has reached the retry cap, and there is one.
OnlyCappedPending ==
  /\ getPendingRecords(store) # <<>>
  /\ \A k \in DOMAIN store :
       IsPending(store[k]) => Attempts(store[k]) >= MAX_SYNC_ATTEMPTS

\* C30: with auto-sync on, the browser online and every pending record at
\* the retry cap, the re-run of the effect that follows a change of the sync
\* status (a pass reporting 'completed', the cooldown setting 'idle') does
\* not perform a pass: it passes over no record and leaves the sync state
\* and the cooldown timers as they are.
C30_StatusChangeStartsNoPass ==
  [][(useEffect /\ online /\ settings.autoSync /\ OnlyCappedPending)
       => /\ last'.passedOver = {}
          /\ syncState' = syncState
          /\ timers' = timers]_vars

=============================================================================
